---------------------------- MODULE Spec2Model ----------------------------
(***************************************************************************)
(* Model of microServicesProvider (src/src/provider/index.tsx): the nine   *)
(* data-provider operations, the requests they hand to the injected        *)
(* httpClient, and the promise each operation returns.                     *)
(*                                                                         *)
(* Strings whose characters the code inspects (the Content-Range header)   *)
(* are sequences of one-character strings.  JavaScript objects are         *)
(* sequences of <<key, value>> entries in insertion order.  JSON text is a *)
(* sequence of tokens.  A promise is a record whose field state is         *)
(* "pending", "resolved" or "rejected".                                    *)
(***************************************************************************)
EXTENDS Integers, Sequences, FiniteSets, TLC

VARIABLES
    config,         \* the resource -> base URL map given at construction
    calls,          \* calls[c]: one invocation of an operation of the provider
    firstRejected   \* firstRejected[c]: index of the request of call c whose
                    \* rejection the transport delivered first (0: none yet)

vars == <<config, calls, firstRejected>>

---------------------------------------------------------------------------
(* Bounds of the model. *)

MaxCalls == 2       \* invocations in flight together (SpecConc)
MaxIds == 3         \* length of params.ids
MaxPage == 3        \* params.pagination.page
MaxPerPage == 3     \* params.pagination.perPage
MaxLen == 3         \* length of an arbitrary Content-Range header value

---------------------------------------------------------------------------
(* Values. *)

Resources == {"posts", "users"}

MicroServiceConfig == [posts |-> "http://posts.api.url", users |-> "http://users.api.url"]

Undefined == "undefined"

Ids == {"1", "2"}

TransportErrors == {"NetworkError", "HttpError"}

MissingHeaderError == "The Content-Range header is missing in the HTTP Response."

TypeError == "TypeError: Cannot read properties of undefined (reading 'id')"

NoBody == <<>>

(* A promise and its three states. *)
Pending == [state |-> "pending"]

Resolved(value) == [state |-> "resolved", value |-> value]

Rejected(error) == [state |-> "rejected", error |-> error]

---------------------------------------------------------------------------
(* JavaScript objects, JSON.stringify and query-string's stringify. *)

ObjKeys(obj) == {obj[i][1] : i \in DOMAIN obj}

ObjHas(obj, key) == key \in ObjKeys(obj)

ObjGet(obj, key) == obj[CHOOSE i \in DOMAIN obj : obj[i][1] = key][2]

(* {...obj, [key]: value}: a key obj has keeps its place and takes the new
   value, a new key is appended. *)
SpreadAssign(obj, key, value) ==
    IF ObjHas(obj, key)
    THEN [i \in DOMAIN obj |-> IF obj[i][1] = key THEN <<key, value>> ELSE obj[i]]
    ELSE Append(obj, <<key, value>>)

RECURSIVE JoinTokens(_, _)
JoinTokens(parts, sep) ==
    IF parts = <<>> THEN <<>>
    ELSE IF Len(parts) = 1 THEN parts[1]
    ELSE parts[1] \o <<sep>> \o JoinTokens(Tail(parts), sep)

(* JSON.stringify of an array of scalars. *)
JSONStringifyArray(arr) ==
    <<"[">> \o JoinTokens([i \in DOMAIN arr |-> <<arr[i]>>], ",") \o <<"]">>

(* JSON.stringify of an object whose values are scalars. *)
JSONStringifyObject(obj) ==
    <<"{">> \o JoinTokens([i \in DOMAIN obj |-> <<obj[i][1], ":", obj[i][2]>>], ",") \o <<"}">>

(* JSON.stringify({ id: ids }). *)
JSONStringifyIdFilter(ids) ==
    <<"{", "id", ":">> \o JSONStringifyArray(ids) \o <<"}">>

QueryKeyOrder == <<"filter", "range", "sort">>

(* stringify(query) of query-string: the keys in alphabetical order, each
   value percent-encoded. *)
stringify(query) ==
    LET present == SelectSeq(QueryKeyOrder, LAMBDA k : k \in DOMAIN query)
    IN  [i \in DOMAIN present |-> [key |-> present[i], encoded |-> query[present[i]]]]

---------------------------------------------------------------------------
(* Request building. *)

BaseUrl(resource) == config[resource]

(* `${config[resource]}?${stringify(query)}` *)
QueryUrl(resource, query) == [base |-> BaseUrl(resource), id |-> <<>>, query |-> stringify(query)]

(* `${config[resource]}/${id}` *)
IdUrl(resource, id) == [base |-> BaseUrl(resource), id |-> <<id>>, query |-> <<>>]

(* `${config[resource]}` *)
PlainUrl(resource) == [base |-> BaseUrl(resource), id |-> <<>>, query |-> <<>>]

Request(method, url, body) ==
    [method |-> method, url |-> url, body |-> body, state |-> "pending"]

(* Faulty variant of RangeOf: an exclusive upper bound. *)
RangeOfHalfOpen(page, perPage) == <<(page - 1) * perPage, page * perPage>>

RangeOf(page, perPage) == <<(page - 1) * perPage, page * perPage - 1>>

ListQuery(params) ==
    [sort |-> JSONStringifyArray(<<params.sort.field, params.sort.order>>),
     range |-> JSONStringifyArray(RangeOf(params.pagination.page, params.pagination.perPage)),
     filter |-> JSONStringifyObject(params.filter)]

(* Faulty variant of ReferenceFilter: { [target]: id, ...filter }, where the
   caller's filter wins over the reference. *)
ReferenceFilterCallerWins(params) ==
    IF ObjHas(params.filter, params.target) THEN params.filter
    ELSE <<<<params.target, params.id>>>> \o params.filter

ReferenceFilter(params) == SpreadAssign(params.filter, params.target, params.id)

ReferenceQuery(params) ==
    [sort |-> JSONStringifyArray(<<params.sort.field, params.sort.order>>),
     range |-> JSONStringifyArray(RangeOf(params.pagination.page, params.pagination.perPage)),
     filter |-> JSONStringifyObject(ReferenceFilter(params))]

ManyQuery(params) == [filter |-> JSONStringifyIdFilter(params.ids)]

UpdateManyRequests(resource, params) ==
    [k \in DOMAIN params.ids |->
        Request("PUT", IdUrl(resource, params.ids[k]), JSONStringifyObject(params.data))]

(* Faulty variant of DeleteManyRequests: one DELETE filtered on the ids. *)
DeleteManyFiltered(resource, params) ==
    <<Request("DELETE", QueryUrl(resource, ManyQuery(params)), NoBody)>>

DeleteManyRequests(resource, params) ==
    [k \in DOMAIN params.ids |-> Request("DELETE", IdUrl(resource, params.ids[k]), NoBody)]

---------------------------------------------------------------------------
(* Response handling. *)

Digits == {"0", "1", "2", "3", "4", "5", "6", "7", "8", "9"}

DigitValue(ch) ==
    CASE ch = "0" -> 0 [] ch = "1" -> 1 [] ch = "2" -> 2 [] ch = "3" -> 3 [] ch = "4" -> 4
      [] ch = "5" -> 5 [] ch = "6" -> 6 [] ch = "7" -> 7 [] ch = "8" -> 8 [] ch = "9" -> 9

NaN == [isNaN |-> TRUE, num |-> 0]

Num(n) == [isNaN |-> FALSE, num |-> n]

RECURSIVE TrimStart(_)
TrimStart(str) ==
    IF str # <<>> /\ str[1] = " " THEN TrimStart(Tail(str)) ELSE str

RECURSIVE DigitPrefix(_)
DigitPrefix(str) ==
    IF str # <<>> /\ str[1] \in Digits THEN <<str[1]>> \o DigitPrefix(Tail(str)) ELSE <<>>

RECURSIVE Decimal(_, _)
Decimal(digits, acc) ==
    IF digits = <<>> THEN acc ELSE Decimal(Tail(digits), 10 * acc + DigitValue(digits[1]))

(* parseInt(str, 10): leading white space and one sign are skipped, the
   longest run of digits that follows is read, and NaN is the result when
   there is none. *)
parseInt(str) ==
    LET trimmed == TrimStart(str)
        signed == trimmed # <<>> /\ trimmed[1] \in {"-", "+"}
        negative == trimmed # <<>> /\ trimmed[1] = "-"
        digits == DigitPrefix(IF signed THEN Tail(trimmed) ELSE trimmed)
    IN  IF digits = <<>> THEN NaN
        ELSE Num(IF negative THEN 0 - Decimal(digits, 0) ELSE Decimal(digits, 0))

(* Faulty variant of SplitPop: str.split('/').shift(), what precedes the
   first '/'. *)
SplitShift(str) ==
    LET slashes == {i \in DOMAIN str : str[i] = "/"}
    IN  IF slashes = {} THEN str
        ELSE LET first == CHOOSE i \in slashes : \A j \in slashes : i <= j
             IN  SubSeq(str, 1, first - 1)

(* str.split('/').pop(): what follows the last '/', the whole of str when it
   holds none. *)
SplitPop(str) ==
    LET slashes == {i \in DOMAIN str : str[i] = "/"}
    IN  IF slashes = {} THEN str
        ELSE LET last == CHOOSE i \in slashes : \A j \in slashes : j <= i
             IN  SubSeq(str, last + 1, Len(str))

DefaultTotal == <<"1", "0">>

(* Faulty variant of ThenList: the header is not required, and the default
   total stands in when it is missing. *)
ThenListUnchecked(response) ==
    LET contentRange == response.headers.value
        total == IF response.headers.has /\ contentRange # <<>>
                 THEN SplitPop(contentRange) ELSE DefaultTotal
    IN  Resolved([data |-> response.json, total |-> parseInt(total)])

(* Faulty variant of ThenList: a total that does not parse falls back to the
   default total. *)
ThenListSentinel(response) ==
    IF ~response.headers.has
    THEN Rejected(MissingHeaderError)
    ELSE LET contentRange == response.headers.value
             total == IF contentRange # <<>> THEN SplitPop(contentRange) ELSE DefaultTotal
             parsed == parseInt(total)
         IN  Resolved([data |-> response.json,
                       total |-> IF parsed.isNaN THEN parseInt(DefaultTotal) ELSE parsed])

(* The .then callback of getList and of getManyReference. *)
ThenList(response) ==
    IF ~response.headers.has
    THEN Rejected(MissingHeaderError)
    ELSE LET contentRange == response.headers.value
             total == IF contentRange # <<>> THEN SplitPop(contentRange) ELSE DefaultTotal
         IN  Resolved([data |-> response.json, total |-> parseInt(total)])

(* ({ json }) => ({ data: json }) *)
ThenData(response) == Resolved([data |-> response.json])

(* json.id *)
JsonId(json) == json.id

(* ({ json }) => ({ data: { ...params.data, id: json.id } }) *)
ThenCreate(params, response) ==
    IF ~response.json.defined
    THEN Rejected(TypeError)
    ELSE Resolved([data |-> SpreadAssign(params.data, "id", JsonId(response.json))])

(* Faulty variant of ThenMany: the ids come back in reverse order. *)
ThenManyReversed(responses) ==
    IF \E k \in DOMAIN responses : ~responses[k].json.defined
    THEN Rejected(TypeError)
    ELSE Resolved([data |-> [k \in DOMAIN responses |->
                                JsonId(responses[Len(responses) + 1 - k].json)]])

(* (responses) => ({ data: responses.map(({ json }) => json.id) }) *)
ThenMany(responses) ==
    IF \E k \in DOMAIN responses : ~responses[k].json.defined
    THEN Rejected(TypeError)
    ELSE Resolved([data |-> [k \in DOMAIN responses |-> JsonId(responses[k].json)]])

(* Faulty variant of Then: the outcome of a settled call of the same
   operation with the same arguments is reused. *)
ThenMemoized(call, response) ==
    LET same == {c \in DOMAIN calls :
                    /\ calls[c].op = call.op
                    /\ calls[c].resource = call.resource
                    /\ calls[c].params = call.params
                    /\ calls[c].result.state # "pending"}
    IN  IF same # {} THEN calls[CHOOSE c \in same : TRUE].result
        ELSE CASE call.op \in {"getList", "getManyReference"} -> ThenList(response)
               [] call.op = "create" -> ThenCreate(call.params, response)
               [] OTHER -> ThenData(response)

(* The reaction of a single-request operation to its response. *)
Then(call, response) ==
    CASE call.op \in {"getList", "getManyReference"} -> ThenList(response)
      [] call.op = "create" -> ThenCreate(call.params, response)
      [] OTHER -> ThenData(response)

IsMany(op) == op \in {"updateMany", "deleteMany"}

(* Promise.all(requests).then(...) once request k is fulfilled: it resolves
   when the last of its inputs is fulfilled and stays as it is otherwise. *)
PromiseAllFulfil(call, reqs) ==
    IF call.result.state = "pending" /\ \A k \in DOMAIN reqs : reqs[k].state = "fulfilled"
    THEN ThenMany([k \in DOMAIN reqs |-> reqs[k].response])
    ELSE call.result

(* Faulty variant of PromiseAllReject: the latest rejection wins. *)
PromiseAllRejectLast(call, error) == Rejected(error)

(* Promise.all(requests) once a request is rejected with error: it rejects
   with the first rejection and ignores the later ones. *)
PromiseAllReject(call, error) ==
    IF call.result.state = "pending" THEN Rejected(error) ELSE call.result

---------------------------------------------------------------------------
(* Operations. *)

Idle == [pc |-> "idle", op |-> "none", resource |-> "none", params |-> <<>>,
         reqs |-> <<>>, result |-> Pending]

Calls == 1 .. MaxCalls

Init ==
    /\ config = MicroServiceConfig
    /\ calls = [c \in Calls |-> Idle]
    /\ firstRejected = [c \in Calls |-> 0]

(* An operation that issues its requests and returns a promise over them. *)
Invoke(c, op, resource, params, reqs) ==
    /\ calls[c].pc = "idle"
    /\ calls' = [calls EXCEPT ![c] =
            [pc |-> "await", op |-> op, resource |-> resource, params |-> params,
             reqs |-> reqs,
             result |-> IF IsMany(op) /\ reqs = <<>> THEN ThenMany(<<>>) ELSE Pending]]
    /\ UNCHANGED <<config, firstRejected>>

getList(c, resource, params) ==
    Invoke(c, "getList", resource, params,
           <<Request("GET", QueryUrl(resource, ListQuery(params)), NoBody)>>)

getOne(c, resource, params) ==
    Invoke(c, "getOne", resource, params,
           <<Request("GET", IdUrl(resource, params.id), NoBody)>>)

getMany(c, resource, params) ==
    Invoke(c, "getMany", resource, params,
           <<Request("GET", QueryUrl(resource, ManyQuery(params)), NoBody)>>)

getManyReference(c, resource, params) ==
    Invoke(c, "getManyReference", resource, params,
           <<Request("GET", QueryUrl(resource, ReferenceQuery(params)), NoBody)>>)

update(c, resource, params) ==
    Invoke(c, "update", resource, params,
           <<Request("PUT", IdUrl(resource, params.id), JSONStringifyObject(params.data))>>)

updateMany(c, resource, params) ==
    Invoke(c, "updateMany", resource, params, UpdateManyRequests(resource, params))

create(c, resource, params) ==
    Invoke(c, "create", resource, params,
           <<Request("POST", PlainUrl(resource), JSONStringifyObject(params.data))>>)

delete(c, resource, params) ==
    Invoke(c, "delete", resource, params,
           <<Request("DELETE", IdUrl(resource, params.id), NoBody)>>)

deleteMany(c, resource, params) ==
    Invoke(c, "deleteMany", resource, params, DeleteManyRequests(resource, params))

(* The transport fulfils request k of call c with response, and the
   reaction of the operation runs. *)
Fulfil(c, k, response) ==
    /\ calls[c].pc = "await"
    /\ k \in DOMAIN calls[c].reqs
    /\ calls[c].reqs[k].state = "pending"
    /\ LET reqs == [calls[c].reqs EXCEPT ![k] =
                        [method |-> @.method, url |-> @.url, body |-> @.body,
                         state |-> "fulfilled", response |-> response]]
       IN  calls' = [calls EXCEPT ![c].reqs = reqs,
                                  ![c].result = IF IsMany(calls[c].op)
                                                THEN PromiseAllFulfil(calls[c], reqs)
                                                ELSE Then(calls[c], response)]
    /\ UNCHANGED <<config, firstRejected>>

(* Faulty variant of Reject: the rejected request is sent again and the
   promise stays pending. *)
RejectRetried(c, k, error) ==
    /\ calls[c].pc = "await"
    /\ k \in DOMAIN calls[c].reqs
    /\ calls[c].reqs[k].state = "pending"
    /\ calls' = [calls EXCEPT ![c].reqs =
                    Append([@ EXCEPT ![k] =
                                [method |-> @.method, url |-> @.url, body |-> @.body,
                                 state |-> "rejected", error |-> error]],
                           Request(@[k].method, @[k].url, @[k].body))]
    /\ firstRejected' = [firstRejected EXCEPT ![c] = IF @ = 0 THEN k ELSE @]
    /\ UNCHANGED config

(* The transport rejects request k of call c with error; no operation
   passes an onRejected callback, so the rejection goes through .then. *)
Reject(c, k, error) ==
    /\ calls[c].pc = "await"
    /\ k \in DOMAIN calls[c].reqs
    /\ calls[c].reqs[k].state = "pending"
    /\ calls' = [calls EXCEPT ![c].reqs[k] =
                        [method |-> @.method, url |-> @.url, body |-> @.body,
                         state |-> "rejected", error |-> error],
                              ![c].result = IF IsMany(calls[c].op)
                                            THEN PromiseAllReject(calls[c], error)
                                            ELSE Rejected(error)]
    /\ firstRejected' = [firstRejected EXCEPT ![c] = IF @ = 0 THEN k ELSE @]
    /\ UNCHANGED config

(* The caller has the outcome of call c and drops it. *)
Return(c) ==
    /\ calls[c].pc = "await"
    /\ calls[c].result.state # "pending"
    /\ calls' = [calls EXCEPT ![c] = Idle]
    /\ firstRejected' = [firstRejected EXCEPT ![c] = 0]
    /\ UNCHANGED config

---------------------------------------------------------------------------
(* Inputs: what the caller passes and what the transport answers. *)

Pages == 1 .. MaxPage

PerPages == 1 .. MaxPerPage

Sorts == {[field |-> "id", order |-> "ASC"], [field |-> "title", order |-> "DESC"]}

Filters ==
    { <<>>,
      << <<"author", "ann">> >>,
      << <<"post_id", "9">> >>,
      << <<"author", "ann">>, <<"post_id", "9">> >>,
      << <<"post_id", "9">>, <<"author", "bob">> >> }

Targets == {"post_id", "user_id"}

Datas == { << <<"status", "done">> >>, << <<"id", "9">>, <<"title", "t">> >> }

IdSeqs(maxLen) == UNION {[1 .. n -> Ids] : n \in 0 .. maxLen}

ListParams(pages, perPages, sorts, filters) ==
    [pagination : [page : pages, perPage : perPages], sort : sorts, filter : filters]

ReferenceParams(pages, perPages, sorts, filters, targets, ids) ==
    [pagination : [page : pages, perPage : perPages], sort : sorts, filter : filters,
     target : targets, id : ids]

(* Response bodies: a record with an id, a record without one, and no JSON
   at all (an empty body). *)
Bodies ==
    {[defined |-> TRUE, id |-> i] : i \in Ids \cup {Undefined}}
        \cup {[defined |-> FALSE, id |-> Undefined]}

NoHeader == [has |-> FALSE, value |-> <<>>]

Header(value) == [has |-> TRUE, value |-> value]

Units == { <<"i", "t", "e", "m", "s">>, <<"a", "/", "b">> }

Spans == { <<"0", "-", "2", "4">>, <<"5", "-", "9">> }

(* The total of a well-formed header, as text and as the number it reads. *)
Totals ==
    { [text |-> <<"3", "1", "9">>, number |-> 319],
      [text |-> <<"0">>, number |-> 0],
      [text |-> <<"1", "0">>, number |-> 10],
      [text |-> <<"0", "7">>, number |-> 7],
      [text |-> <<"2", "5">>, number |-> 25] }

(* <unit> <start>-<end>/<total> *)
ContentRange(unit, span, total) == unit \o <<" ">> \o span \o <<"/">> \o total

WellFormedValues ==
    {ContentRange(u, s, t.text) : u \in Units, s \in Spans, t \in Totals}

Alphabet == {"3", "1", "/", "a", " ", "-"}

ShortValues == UNION {[1 .. n -> Alphabet] : n \in 0 .. MaxLen}

ListResponses(bodies) ==
    [headers : {NoHeader} \cup {Header(v) : v \in WellFormedValues \cup ShortValues},
     json : bodies]

PlainResponses(bodies) == [headers : {NoHeader}, json : bodies]

IsList(op) == op \in {"getList", "getManyReference"}

---------------------------------------------------------------------------
(* Specification: the nine operations, called one after the other. *)

SmallBodies == {[defined |-> TRUE, id |-> "1"], [defined |-> FALSE, id |-> Undefined]}

SmallValues == { <<>>, <<"a">>, ContentRange(<<"i", "t", "e", "m", "s">>, <<"0", "-", "2", "4">>, <<"3", "1", "9">>) }

SmallListResponses ==
    [headers : {NoHeader} \cup {Header(v) : v \in SmallValues}, json : SmallBodies]

Next ==
    \/ \E r \in Resources, p \in ListParams(Pages, PerPages, Sorts, Filters) : getList(1, r, p)
    \/ \E r \in Resources, p \in [id : Ids] : getOne(1, r, p)
    \/ \E r \in Resources, p \in [ids : IdSeqs(2)] : getMany(1, r, p)
    \/ \E r \in Resources, p \in ReferenceParams(Pages, PerPages, Sorts, Filters, Targets, Ids) :
            getManyReference(1, r, p)
    \/ \E r \in Resources, p \in [id : Ids, data : Datas] : update(1, r, p)
    \/ \E r \in Resources, p \in [ids : IdSeqs(2), data : Datas] : updateMany(1, r, p)
    \/ \E r \in Resources, p \in [data : Datas] : create(1, r, p)
    \/ \E r \in Resources, p \in [id : Ids] : delete(1, r, p)
    \/ \E r \in Resources, p \in [ids : IdSeqs(2)] : deleteMany(1, r, p)
    \/ \E k \in 1 .. 2 :
        \E response \in IF IsList(calls[1].op) THEN SmallListResponses
                        ELSE PlainResponses(Bodies) :
            Fulfil(1, k, response)
    \/ \E k \in 1 .. 2, error \in TransportErrors : Reject(1, k, error)
    \/ Return(1)

Spec == Init /\ [][Next]_vars

---------------------------------------------------------------------------
(* SpecResponse: getList and getManyReference against every response. *)

OneListParams == ListParams({1}, {2}, {[field |-> "id", order |-> "ASC"]}, {<<>>})

OneReferenceParams ==
    ReferenceParams({1}, {2}, {[field |-> "id", order |-> "ASC"]}, {<<>>}, {"post_id"}, {"1"})

NextResponse ==
    \/ \E r \in Resources, p \in OneListParams : getList(1, r, p)
    \/ \E r \in Resources, p \in OneReferenceParams : getManyReference(1, r, p)
    \/ \E response \in ListResponses(SmallBodies) : Fulfil(1, 1, response)
    \/ \E error \in TransportErrors : Reject(1, 1, error)
    \/ Return(1)

SpecResponse == Init /\ [][NextResponse]_vars

---------------------------------------------------------------------------
(* SpecMany: updateMany and deleteMany, their requests settled in every
   order and with every outcome. *)

NextMany ==
    \/ \E r \in Resources, p \in [ids : IdSeqs(MaxIds), data : {<< <<"status", "done">> >>}] :
            updateMany(1, r, p)
    \/ \E r \in Resources, p \in [ids : IdSeqs(MaxIds)] : deleteMany(1, r, p)
    \/ \E k \in 1 .. MaxIds, response \in PlainResponses(Bodies) : Fulfil(1, k, response)
    \/ \E k \in 1 .. MaxIds, error \in TransportErrors : Reject(1, k, error)
    \/ Return(1)

SpecMany == Init /\ [][NextMany]_vars

---------------------------------------------------------------------------
(* SpecConc: the nine operations, MaxCalls invocations in flight together. *)

ConcData == << <<"status", "done">> >>

ConcIds == <<"1", "2">>

ConcBody == [defined |-> TRUE, id |-> "1"]

ConcListResponses ==
    [headers : {NoHeader, Header(<<"a", " ", "0", "-", "1", "/", "2">>)}, json : {ConcBody}]

ConcResponses(op) ==
    IF IsList(op) THEN ConcListResponses
    ELSE IF IsMany(op) THEN PlainResponses({ConcBody})
    ELSE PlainResponses(SmallBodies)

NextConc ==
    \E c \in Calls :
        \/ \E p \in OneListParams : getList(c, "posts", p)
        \/ \E r \in Resources : getOne(c, r, [id |-> "1"])
        \/ getMany(c, "posts", [ids |-> ConcIds])
        \/ \E p \in OneReferenceParams : getManyReference(c, "users", p)
        \/ update(c, "posts", [id |-> "1", data |-> ConcData])
        \/ updateMany(c, "posts", [ids |-> ConcIds, data |-> ConcData])
        \/ create(c, "users", [data |-> ConcData])
        \/ delete(c, "posts", [id |-> "1"])
        \/ deleteMany(c, "users", [ids |-> ConcIds])
        \/ \E k \in 1 .. 2, response \in ConcResponses(calls[c].op) : Fulfil(c, k, response)
        \/ \E k \in 1 .. 2 : Reject(c, k, "NetworkError")
        \/ Return(c)

SpecConc == Init /\ [][NextConc]_vars

---------------------------------------------------------------------------
(* What the properties below read off a call. *)

FulfilledAt(call, k) == k \in DOMAIN call.reqs /\ call.reqs[k].state = "fulfilled"

RejectedAt(call, k) == k \in DOMAIN call.reqs /\ call.reqs[k].state = "rejected"

AllFulfilled(call) == \A k \in DOMAIN call.reqs : call.reqs[k].state = "fulfilled"

(* The header value a list call was answered with. *)
AnsweredHeader(call) == call.reqs[1].response.headers

(* The wire form of a request: what was sent, whatever became of it. *)
Wire(req) == [method |-> req.method, url |-> req.url, body |-> req.body]

WireOf(call) == [k \in DOMAIN call.reqs |-> Wire(call.reqs[k])]

(* The value sent under a key of the query string. *)
SentQuery(call, key) ==
    LET q == call.reqs[1].url.query
    IN  q[CHOOSE i \in DOMAIN q : q[i].key = key].encoded

(* The entries of a JSON object text: tokens 2, 6, 10, ... are its keys. *)
KeyPositions(tokens) == {i \in DOMAIN tokens : i % 4 = 2 /\ i + 2 <= Len(tokens)}

HasEntry(tokens, key, value) ==
    \E i \in KeyPositions(tokens) :
        tokens[i] = key /\ tokens[i + 1] = ":" /\ tokens[i + 2] = value

CountKey(tokens, key) == Cardinality({i \in KeyPositions(tokens) : tokens[i] = key})

(* What follows the last '/' of a header value, read off its positions. *)
HasSlash(value) == \E i \in DOMAIN value : value[i] = "/"

Segments(value) ==
    {SubSeq(value, i + 1, Len(value)) : i \in
        {i \in DOMAIN value : value[i] = "/" /\ \A j \in DOMAIN value : j > i => value[j] # "/"}}

LastSegment(value) == IF HasSlash(value) THEN CHOOSE seg \in Segments(value) : TRUE ELSE value

AllDigits(str) == str # <<>> /\ \A i \in DOMAIN str : str[i] \in Digits

NoDigit(str) == \A i \in DOMAIN str : str[i] \notin Digits

Malformed(value) == ~HasSlash(value) \/ ~AllDigits(LastSegment(value))

ListAnswered(call) == IsList(call.op) /\ Len(call.reqs) = 1 /\ FulfilledAt(call, 1)

---------------------------------------------------------------------------
(* Properties. *)

\* C1: a getList or getManyReference whose single GET is answered without a
\* Content-Range header rejects with the missing-header error, whatever the
\* resource and the body; it never resolves to {data, total}.
C1_MissingHeaderRejects ==
    \A c \in Calls :
        LET call == calls[c]
        IN  (ListAnswered(call) /\ ~AnsweredHeader(call).has)
                => /\ call.reqs[1].method = "GET"
                   /\ call.result = Rejected(MissingHeaderError)

C1_Witness ==
    /\ calls[1].op = "getManyReference"
    /\ calls[1].resource = "users"
    /\ ListAnswered(calls[1])
    /\ ~AnsweredHeader(calls[1]).has
    /\ calls[1].reqs[1].response.json.defined
    /\ calls[1].result.state = "rejected"

\* C5 as stated: a present but malformed Content-Range header (no '/', or a
\* last segment that is not a base-10 integer) makes the operation resolve
\* with total 10.
C5_MalformedGivesSentinel ==
    \A c \in Calls :
        LET call == calls[c]
        IN  (ListAnswered(call) /\ AnsweredHeader(call).has
                /\ Malformed(AnsweredHeader(call).value))
                => /\ call.result.state = "resolved"
                   /\ call.result.value.total = Num(10)

\* C5 as amended: a present but malformed Content-Range header never makes
\* the operation fail; the total is what parseInt reads in the text after
\* the last '/' (the whole value when it has no '/'): NaN when that text
\* holds no digit, and the default 10 only for the empty header value (or
\* for a text that itself reads 10).
C5_MalformedTotal ==
    \A c \in Calls :
        LET call == calls[c]
            value == AnsweredHeader(call).value
            total == call.result.value.total
        IN  (ListAnswered(call) /\ AnsweredHeader(call).has /\ Malformed(value))
                => /\ call.result.state = "resolved"
                   /\ call.result.value.data = call.reqs[1].response.json
                   /\ value = <<>> => total = Num(10)
                   /\ (value # <<>> /\ NoDigit(LastSegment(value))) => total = NaN
                   /\ total = Num(10) =>
                        \/ value = <<>>
                        \/ \E i \in DOMAIN value :
                                i < Len(value) /\ value[i] = "1" /\ value[i + 1] = "0"

C5_Witness ==
    /\ calls[1].op = "getList"
    /\ ListAnswered(calls[1])
    /\ AnsweredHeader(calls[1]) = Header(<<"a", "-", "3">>)
    /\ calls[1].result.state = "resolved"
    /\ calls[1].result.value.total = NaN

\* C6: with a Content-Range header '<unit> <start>-<end>/<total>' the
\* operation resolves to {data: the response JSON, total: T}, T the base-10
\* integer after the last '/', whatever the unit, start and end.
C6_TotalFromContentRange ==
    \A c \in Calls :
        LET call == calls[c]
        IN  ListAnswered(call) =>
                \A u \in Units, s \in Spans, t \in Totals :
                    AnsweredHeader(call) = Header(ContentRange(u, s, t.text))
                        => call.result =
                            Resolved([data |-> call.reqs[1].response.json,
                                      total |-> Num(t.number)])

C6_Witness ==
    /\ calls[1].op = "getList"
    /\ ListAnswered(calls[1])
    /\ AnsweredHeader(calls[1]) =
            Header(<<"i", "t", "e", "m", "s", " ", "0", "-", "2", "4", "/", "3", "1", "9">>)
    /\ calls[1].result.state = "resolved"
    /\ calls[1].result.value.total.num = 319

\* C8: the filter getManyReference sends has key target with value id, and
\* every key of the caller's filter: each other key with the caller's value,
\* none dropped (and none added).
C8_ReferenceFilterMerged ==
    \A c \in Calls :
        LET call == calls[c]
            F == call.params.filter
            sent == SentQuery(call, "filter")
        IN  call.op = "getManyReference" =>
                /\ HasEntry(sent, call.params.target, call.params.id)
                /\ \A i \in DOMAIN F :
                        /\ CountKey(sent, F[i][1]) = 1
                        /\ F[i][1] # call.params.target => HasEntry(sent, F[i][1], F[i][2])
                /\ CountKey(sent, call.params.target) = 1
                /\ Cardinality(KeyPositions(sent)) = Cardinality(ObjKeys(F) \cup {call.params.target})

C8_Witness ==
    /\ calls[1].op = "getManyReference"
    /\ calls[1].params.filter = << <<"post_id", "9">>, <<"author", "bob">> >>
    /\ calls[1].params.target = "post_id"
    /\ calls[1].params.id = "1"
    /\ HasEntry(SentQuery(calls[1], "filter"), "post_id", "1")
    /\ HasEntry(SentQuery(calls[1], "filter"), "author", "bob")

\* C9: for page >= 1 and perPage >= 1 the range getList and getManyReference
\* send is [(page-1)*perPage, page*perPage-1]: 0 <= start <= end, exactly
\* perPage indices, and the next page starts right after this one ends.
C9_RangeOfPage ==
    \A c \in Calls :
        LET call == calls[c]
            page == call.params.pagination.page
            perPage == call.params.pagination.perPage
            sent == SentQuery(call, "range")
        IN  IsList(call.op) =>
                /\ Len(sent) = 5
                /\ <<sent[1], sent[3], sent[5]>> = <<"[", ",", "]">>
                /\ sent[2] = (page - 1) * perPage
                /\ sent[4] = page * perPage - 1
                /\ 0 <= sent[2] /\ sent[2] <= sent[4]
                /\ sent[4] - sent[2] + 1 = perPage
                /\ RangeOf(page + 1, perPage)[1] = sent[4] + 1

C9_Witness ==
    /\ calls[1].op = "getManyReference"
    /\ calls[1].params.pagination = [page |-> 2, perPage |-> 3]
    /\ SentQuery(calls[1], "range") = <<"[", 3, ",", 5, "]">>

\* C2 as stated: when all N requests of updateMany or deleteMany succeed, the
\* operation resolves to {data: ids}, the k-th element being the k-th input
\* id, in every order of completion.
C2_ResolvesToInputIds ==
    \A c \in Calls :
        LET call == calls[c]
        IN  (IsMany(call.op) /\ AllFulfilled(call))
                => call.result = Resolved([data |-> call.params.ids])

\* C2 as amended: when all N requests succeed and every response carries a
\* JSON body, the operation resolves to {data: d} with d of length N and d[k]
\* the id field of the response to the k-th request, in every order of
\* completion; d is ids when every response echoes the id of its request.
\* When some response carries no JSON body the operation rejects with the
\* TypeError of reading its id.
C2_ResolvesToResponseIds ==
    \A c \in Calls :
        LET call == calls[c]
            ids == call.params.ids
            json(k) == call.reqs[k].response.json
        IN  (IsMany(call.op) /\ AllFulfilled(call)) =>
                /\ Len(call.reqs) = Len(ids)
                /\ (\A k \in DOMAIN ids : json(k).defined) =>
                        /\ call.result.state = "resolved"
                        /\ Len(call.result.value.data) = Len(ids)
                        /\ \A k \in DOMAIN ids : call.result.value.data[k] = json(k).id
                        /\ (\A k \in DOMAIN ids : json(k).id = ids[k])
                                => call.result.value.data = ids
                /\ (\E k \in DOMAIN ids : ~json(k).defined) => call.result = Rejected(TypeError)

C2_Witness ==
    /\ calls[1].op = "updateMany"
    /\ calls[1].params.ids = <<"2", "1", "2">>
    /\ AllFulfilled(calls[1])
    /\ \A k \in 1 .. 3 : calls[1].reqs[k].response.json = [defined |-> TRUE, id |-> calls[1].params.ids[k]]
    /\ calls[1].result = Resolved([data |-> <<"2", "1", "2">>])

\* C3: in updateMany and deleteMany, once a request has rejected, the
\* aggregate promise is rejected with the error of the first request that
\* rejected, while siblings may still be pending, and it is never resolved,
\* however many siblings succeeded and wherever they stand.
C3_FailFastFirstRejection ==
    \A c \in Calls :
        LET call == calls[c]
        IN  (IsMany(call.op) /\ \E k \in DOMAIN call.reqs : RejectedAt(call, k)) =>
                /\ RejectedAt(call, firstRejected[c])
                /\ call.result = Rejected(call.reqs[firstRejected[c]].error)

C3_Witness ==
    /\ calls[1].op = "deleteMany"
    /\ Len(calls[1].reqs) = 3
    /\ FulfilledAt(calls[1], 1)
    /\ calls[1].reqs[2].state = "pending"
    /\ RejectedAt(calls[1], 3)
    /\ calls[1].reqs[3].error = "HttpError"
    /\ calls[1].result = Rejected("HttpError")

(* updateMany and deleteMany have one request per id on the wire. *)
OneRequestPerId ==
    \A c \in Calls :
        LET call == calls[c]
            ids == call.params.ids
        IN  IsMany(call.op) =>
                /\ Len(call.reqs) = Len(ids)
                /\ \A k \in DOMAIN ids :
                        /\ call.reqs[k].url =
                                [base |-> MicroServiceConfig[call.resource], id |-> <<ids[k]>>,
                                 query |-> <<>>]
                        /\ call.op = "updateMany" =>
                                /\ call.reqs[k].method = "PUT"
                                /\ call.reqs[k].body = JSONStringifyObject(call.params.data)
                        /\ call.op = "deleteMany" =>
                                /\ call.reqs[k].method = "DELETE"
                                /\ call.reqs[k].body = NoBody

(* No step of a call adds, drops or changes a request already sent. *)
WireKept ==
    \A c \in Calls :
        calls[c].pc = "await" => (calls'[c] = Idle \/ WireOf(calls'[c]) = WireOf(calls[c]))

\* C4: updateMany and deleteMany with N ids issue exactly N requests, the
\* k-th to <base>/<ids[k]> (PUT with body data, or DELETE), all of them sent
\* before any response is awaited; a rejection stops none of them and adds
\* no retry or compensating request.
C4_AllDispatchedNoRetry == []OneRequestPerId /\ [][WireKept]_vars

C4_Witness ==
    /\ calls[1].op = "updateMany"
    /\ Len(calls[1].params.ids) = 3
    /\ Len(calls[1].reqs) = 3
    /\ RejectedAt(calls[1], 1)
    /\ FulfilledAt(calls[1], 2)
    /\ FulfilledAt(calls[1], 3)
    /\ calls[1].result.state = "rejected"

(* A request the transport rejected decides the promise of its call. *)
RejectionSurfaces ==
    \A c \in Calls :
        LET call == calls[c]
        IN  (\E k \in DOMAIN call.reqs : RejectedAt(call, k)) =>
                /\ RejectedAt(call, firstRejected[c])
                /\ call.result = Rejected(call.reqs[firstRejected[c]].error)
                /\ call.result.error \in TransportErrors

(* A call that has seen a rejection sends nothing more. *)
NoRequestAfterRejection ==
    \A c \in Calls :
        (\E k \in DOMAIN calls[c].reqs : RejectedAt(calls[c], k))
            => (calls'[c] = Idle \/ WireOf(calls'[c]) = WireOf(calls[c]))

\* C7: for every operation, a rejection from the transport rejects the
\* operation's promise with that same error; the operation then issues no
\* further request and never ends in a success result.
C7_TransportErrorPropagates == []RejectionSurfaces /\ [][NoRequestAfterRejection]_vars

C7_Witness ==
    /\ calls[1].op = "create"
    /\ RejectedAt(calls[1], 1)
    /\ calls[1].reqs[1].error = "HttpError"
    /\ calls[1].result = Rejected("HttpError")

(* Two calls of the same operation with the same arguments sent the same
   requests, and with the same answers to them they have the same outcome. *)
SameCallSameOutcome ==
    \A a, b \in Calls :
        LET x == calls[a]
            y == calls[b]
        IN  (a # b /\ x.op # "none" /\ x.op = y.op /\ x.resource = y.resource
                /\ x.params = y.params) =>
                /\ WireOf(x) = WireOf(y)
                /\ (x.reqs = y.reqs /\ firstRejected[a] = firstRejected[b])
                        => x.result = y.result

(* What a call resolved with was read from the answers to its own requests. *)
OwnAnswers ==
    \A c \in Calls :
        LET call == calls[c]
            data == call.result.value.data
        IN  (call.op # "none" /\ call.result.state = "resolved") =>
                /\ AllFulfilled(call)
                /\ call.op \in {"getList", "getManyReference", "getOne", "getMany", "update",
                                 "delete"}
                        => data = call.reqs[1].response.json
                /\ call.op = "create" => HasEntry(JSONStringifyObject(data), "id",
                                                  call.reqs[1].response.json.id)
                /\ IsMany(call.op) =>
                        \A k \in DOMAIN call.reqs : data[k] = call.reqs[k].response.json.id

\* C10: no operation changes the resource-to-URL configuration, and the
\* requests and the result of a call depend only on its own arguments and
\* on the answers to its own requests: never on an earlier or concurrent call.
C10_StatelessCalls ==
    /\ [](config = MicroServiceConfig)
    /\ [][config' = config]_vars
    /\ []SameCallSameOutcome
    /\ []OwnAnswers

C10_Witness ==
    /\ calls[1].op = "getOne" /\ calls[2].op = "getOne"
    /\ calls[1].resource = calls[2].resource
    /\ calls[1].params = calls[2].params
    /\ calls[1].result.state = "rejected"
    /\ calls[2].result = Resolved([data |-> [defined |-> TRUE, id |-> "1"]])

=============================================================================
